---------------------------- MODULE Spec2Model ----------------------------
(***************************************************************************)
(* A model of the feed-to-publication pipeline of latam-deal-engine:       *)
(* src/utils.py (normalize_url), src/storage.py (the run state and the     *)
(* deal store), src/ingest.py (parse_feed), src/score.py (compute_score),  *)
(* src/config.py (load_config) and src/run.py (the filters and main).      *)
(*                                                                         *)
(* Text.  A string is a sequence of lexemes.  The lexemes "utm_", "fbclid" *)
(* and "gclid" are the literals of the regular expressions of              *)
(* normalize_url; every other lexeme is one character.  No lexeme but      *)
(* "?", "&" and "=" contains one of these three characters, so the         *)
(* character classes [?&], [^=] and [^&] decide on whole lexemes exactly   *)
(* as they decide on the characters.                                       *)
(*                                                                         *)
(* Time.  An instant is an integer; its year is the instant divided by     *)
(* TicksPerYear.  An optional value is << >> (None) or << v >>; the ISO    *)
(* text of an instant t, as isoformat() writes it, is << t >>.             *)
(***************************************************************************)
EXTENDS Integers, Sequences, FiniteSets, TLC

VARIABLES
    env,            \* the environment variables and sources.yaml
    file,           \* the state file on disk (data/state.json)
    db,             \* the deals table: its rows, in the order of their ids
    now,            \* the wall clock
    run,            \* number of runs started
    pc,             \* position of main()
    state,          \* main's in-memory run state
    last_run_dt,    \* main's last_run_dt
    posted,         \* main's posted
    processed_new,  \* main's processed_new
    si,             \* index of the source main is at
    items,          \* items returned by parse_feed for that source
    ii,             \* index of the item main is at
    last,           \* record of the item handled last: verdict, calls made, state before it
    failed,         \* items whose handling failed: in this run, and in the run before
    io,             \* the run's reads and writes of the state file, and how its setup ended
    probe           \* argument and results of the calls of the pure-function specifications

vars == << env, file, db, now, run, pc, state, last_run_dt, posted, processed_new,
           si, items, ii, last, failed, io, probe >>

mainVars == << env, file, db, now, run, pc, state, last_run_dt, posted, processed_new,
               si, items, ii, last, failed, io >>

None == << >>

-----------------------------------------------------------------------------
(* Bounds *)

MaxUrlLen == 5      \* longest input of the normalize_url specification, in lexemes
MaxRuns == 2        \* runs of main() in one behaviour
MaxItems == 2       \* entries one feed returns
MaxPosts == 2       \* largest MAX_POSTS_PER_RUN tried
MaxMarks == 2       \* mark_seen calls of the seen-set specification
NumSources == 2     \* sources listed in sources.yaml
TicksPerYear == 10  \* instants in a year

\* tick k of year y
At(y, k) == y * TicksPerYear + k

Year(t) == t \div TicksPerYear

Clock0 == At(2026, 4)   \* the clock before the first run

UrlAlphabet == {"?", "&", "=", "utm_", "fbclid", "gclid", "a", " "}

-----------------------------------------------------------------------------
(* src/utils.py: normalize_url *)

IsSep(c) == c \in {"?", "&"}

\* Index of the last lexeme of the longest run s[i..j] holding no lexeme `stop`
\* (i - 1 when s[i] is `stop` or i is past the end): a greedy [^stop]* from i.
RECURSIVE RunEnd(_, _, _)
RunEnd(s, i, stop) ==
    IF i > Len(s) \/ s[i] = stop THEN i - 1 ELSE RunEnd(s, i + 1, stop)

\* [?&]utm_[^=]+=[^&]+ matched at i: index of the last lexeme matched, 0 if none.
\* [^=]+ cannot cross a "=", so the "=" of the pattern is the first one after
\* "utm_", and at least one lexeme lies between them.
UtmMatchEnd(s, i) ==
    LET k == RunEnd(s, i + 2, "=") + 1
    IN  IF /\ i + 1 <= Len(s)
           /\ IsSep(s[i])
           /\ s[i + 1] = "utm_"
           /\ k >= i + 3
           /\ k + 1 <= Len(s)
           /\ s[k] = "="
           /\ s[k + 1] # "&"
        THEN RunEnd(s, k + 1, "&")
        ELSE 0

\* [?&]<key>=[^&]+ matched at i, for the keys fbclid and gclid.
ParamMatchEnd(s, i, key) ==
    IF /\ i + 3 <= Len(s)
       /\ IsSep(s[i])
       /\ s[i + 1] = key
       /\ s[i + 2] = "="
       /\ s[i + 3] # "&"
    THEN RunEnd(s, i + 3, "&")
    ELSE 0

MatchEnd(pat, s, i) ==
    IF pat = "utm_" THEN UtmMatchEnd(s, i) ELSE ParamMatchEnd(s, i, pat)

\* re.sub(pattern, "", s): the leftmost non-overlapping matches are deleted.
RECURSIVE ReSub(_, _, _)
ReSub(pat, s, i) ==
    IF i > Len(s) THEN << >>
    ELSE LET e == MatchEnd(pat, s, i)
         IN  IF e > 0 THEN ReSub(pat, s, e + 1)
             ELSE << s[i] >> \o ReSub(pat, s, i + 1)

\* str.strip()
RECURSIVE Strip(_)
Strip(s) ==
    IF s = << >> THEN s
    ELSE IF Head(s) = " " THEN Strip(Tail(s))
    ELSE IF s[Len(s)] = " " THEN Strip(SubSeq(s, 1, Len(s) - 1))
    ELSE s

\* re.sub(r"[?&]$", "", s): one trailing separator is deleted.
StripTail(s) ==
    IF s # << >> /\ IsSep(s[Len(s)]) THEN SubSeq(s, 1, Len(s) - 1) ELSE s

normalize_url(url) ==
    StripTail(ReSub("gclid", ReSub("fbclid", ReSub("utm_", Strip(url), 1), 1), 1))

-----------------------------------------------------------------------------
(* src/storage.py: the run state *)

SeenCap == 5000

\* A seen set: `keys` are its members that are keys of the model's items, `pad`
\* counts its other members (older history, no key of an item of the model).
NoKeys == [keys |-> {}, pad |-> 0]

Size(S) == Cardinality(S.keys) + S.pad

EmptyState == [seen_urls |-> NoKeys, seen_guids |-> NoKeys, last_run_utc |-> None]

\* The state file: absent, or holding the JSON text of a state, whole or cut
\* short.
Absent == [exists |-> FALSE, whole |-> FALSE, json |-> EmptyState]

Written(st) == [exists |-> TRUE, whole |-> TRUE, json |-> st]

\* The file while save_state(st) is under way: open(path, "w") has emptied it
\* and json.dump has written a proper prefix of the text of st.
Truncated(st) == [exists |-> TRUE, whole |-> FALSE, json |-> st]

\* load_state taking a text cut short for the state it was to hold
LoadFails_never(f) == FALSE

\* json.load raises: the file holds no whole JSON document
LoadFails(f) == f.exists /\ ~f.whole

load_state(f) == IF ~f.exists THEN EmptyState ELSE f.json

\* save_state when it returns
save_state(st) == Written(st)

\* is_seen with the two signals joined by `and`
is_seen_both(st, url, guid) ==
    LET u == normalize_url(url)
    IN  u \in st.seen_urls.keys /\ (guid # << >> /\ guid \in st.seen_guids.keys)

is_seen(st, url, guid) ==
    LET u == normalize_url(url)
    IN  u \in st.seen_urls.keys \/ (guid # << >> /\ guid \in st.seen_guids.keys)

\* list(S)[-SeenCap:]: a set is listed in hash order, which for strings changes
\* from process to process, so the members cut are any Size(S) - SeenCap of them.
LastN(S) ==
    IF Size(S) <= SeenCap THEN {S}
    ELSE {[keys |-> K, pad |-> SeenCap - Cardinality(K)] :
            K \in {J \in SUBSET S.keys : SeenCap - Cardinality(J) \in 0..S.pad}}

Add(S, k) == [keys |-> S.keys \cup {k}, pad |-> S.pad]

\* The states mark_seen(st, url, guid) can leave when utc_now_iso() is the text
\* of instant t.
mark_seen(st, url, guid, t) ==
    LET u      == normalize_url(url)
        urls   == Add(st.seen_urls, u)
        guids  == IF guid # << >> THEN Add(st.seen_guids, guid) ELSE st.seen_guids
    IN  {[seen_urls |-> a, seen_guids |-> b, last_run_utc |-> << t >>] :
            a \in LastN(urls), b \in LastN(guids)}

\* The url column of the rows of the deals table
StoredUrls(d) == {d[i].url : i \in DOMAIN d}

\* INSERT INTO deals, with no OR IGNORE and no UNIQUE
insert_deal_plain(d, record) == Append(d, record)

\* INSERT OR IGNORE INTO deals, url UNIQUE: d the rows of the table, by id
insert_deal(d, record) ==
    IF record.url \in StoredUrls(d) THEN d ELSE Append(d, record)

-----------------------------------------------------------------------------
(* src/ingest.py: parse_feed *)

FeedCap == 50

NoDate == [given |-> FALSE, parses |-> FALSE, t |-> 0]
BadDate == [given |-> TRUE, parses |-> FALSE, t |-> 0]
Date(t) == [given |-> TRUE, parses |-> TRUE, t |-> t]

\* The entries the feeds of the model carry.  link, id: text; published: the
\* first date field of the entry (absent, one dateutil rejects, or an instant).
Entries == <<
    [link |-> << "c", "?", "&", "&", "&", "&" >>,
     id |-> << "g1" >>, published |-> Date(At(2026, 2))],
    [link |-> << "c", "?", "&", "&", "&" >>,
     id |-> << "g2" >>, published |-> Date(At(2026, 3))],
    [link |-> << "/", "2", "0", "2", "6", "/", "b", "?", "utm_", "s", "=", "x" >>,
     id |-> << >>, published |-> NoDate],
    [link |-> << "e" >>,
     id |-> << "g1" >>, published |-> Date(At(2025, 8))],
    [link |-> << "?", "?" >>,
     id |-> << "g5" >>, published |-> BadDate],
    [link |-> << " ", "?" >>,
     id |-> << "g6" >>, published |-> NoDate] >>

EntryIds == 1..Len(Entries)

\* One entry to a FeedItem (e names the entry; source, title and summary are
\* carried through the pipeline unread by anything modelled here).
FeedItem(e) ==
    LET link == normalize_url(Entries[e].link)
        guid == IF Entries[e].id # << >> THEN Entries[e].id ELSE link
        v    == Entries[e].published
        pub  == IF v.given /\ v.parses THEN << v.t >> ELSE None
    IN  [e |-> e, url |-> link, guid |-> guid, published_at |-> pub]

RECURSIVE ParseFrom(_, _)
ParseFrom(es, i) ==
    IF i > Len(es) THEN << >>
    ELSE IF normalize_url(Entries[es[i]].link) = << >> THEN ParseFrom(es, i + 1)
    ELSE << FeedItem(es[i]) >> \o ParseFrom(es, i + 1)

\* es: the entries feedparser returns, as entry ids
parse_feed(es) ==
    ParseFrom(SubSeq(es, 1, IF Len(es) < FeedCap THEN Len(es) ELSE FeedCap), 1)

\* The entries the feed of source n carries over time: entry 1 is carried by
\* both sources.
SourceEntries(n) == IF n = 1 THEN {1, 2, 3, 6} ELSE {1, 4, 5}

\* The feeds source n can return: up to MaxItems of its entries, in the order of
\* the feed.
Feeds(n) ==
    {es \in UNION {[1..k -> SourceEntries(n)] : k \in 0..MaxItems} :
        \A i, j \in DOMAIN es : i < j => es[i] < es[j]}

-----------------------------------------------------------------------------
(* src/run.py: the filters *)

Epoch2000 == At(2000, 0)    \* datetime(2000, 1, 1, tzinfo=timezone.utc)

\* parse_iso_dt(s): None for None; the texts that reach it are the ones
\* isoformat() wrote, which fromisoformat reads back as the same instant.
parse_iso_dt(s) == IF s = None THEN None ELSE << s[1] >>

Digits == {"0", "1", "2", "3", "4", "5", "6", "7", "8", "9"}

DigitVal(c) == CHOOSE n \in 0..9 : ToString(n) = c

\* re.search(r"/(20\d{2})/", url) from lexeme i on: the year of the first match
RECURSIVE YearFrom(_, _)
YearFrom(s, i) ==
    IF i + 5 > Len(s) THEN None
    ELSE IF /\ s[i] = "/" /\ s[i + 1] = "2" /\ s[i + 2] = "0"
            /\ s[i + 3] \in Digits /\ s[i + 4] \in Digits /\ s[i + 5] = "/"
         THEN << 2000 + 10 * DigitVal(s[i + 3]) + DigitVal(s[i + 4]) >>
         ELSE YearFrom(s, i + 1)

extract_year_from_url(url) == YearFrom(url, 1)

\* is_allowed_year with the year of the URL consulted before the timestamp
is_allowed_year_url_first(published_at_iso, url, min_year) ==
    LET dt == parse_iso_dt(published_at_iso)
        y  == extract_year_from_url(url)
    IN  IF y # None THEN y[1] >= min_year
        ELSE IF dt # None THEN Year(dt[1]) >= min_year
        ELSE FALSE

is_allowed_year(published_at_iso, url, min_year) ==
    LET dt == parse_iso_dt(published_at_iso)
        y  == extract_year_from_url(url)
    IN  IF dt # None THEN Year(dt[1]) >= min_year
        ELSE IF y # None THEN y[1] >= min_year
        ELSE FALSE

-----------------------------------------------------------------------------
(* src/score.py: compute_score.  The texts of this section are sequences of  *)
(* words and blanks; investor names are sequences of characters, since       *)
(* their length is read.                                                   *)

T(w) == << w >>     \* the text of one word

FOCUS_COUNTRIES ==
    {T("argentina"), T("brazil"), T("brasil"), T("mexico"), T("colombia"), T("chile"),
     T("peru"), T("uruguay")}

FOCUS_SECTORS ==
    {T("edtech"), T("hrtech"), T("fintech"), T("fintech_infra"), T("payments"), T("ai"),
     T("cybersecurity"), T("logistics"), T("govtech")}

SeriesA == << "Series", " ", "A" >>

stage_points ==
    (T("Seed") :> 10) @@ (SeriesA :> 22) @@ (<< "Series", " ", "B" >> :> 18)
    @@ (<< "Series", " ", "C" >> :> 14) @@ (T("Growth") :> 12) @@ (T("Debt") :> 6)
    @@ (T("Grant") :> 6) @@ (T("M&A") :> 16) @@ (T("IPO") :> 20) @@ (T("Pre-Seed") :> 8)
    @@ (T("Unknown") :> 0)

\* str.lower() on the words of the model
LowerWord ==
    ("Brazil" :> "brazil") @@ ("BRAZIL" :> "brazil") @@ ("Fintech" :> "fintech")
    @@ ("Expansion" :> "expansion") @@ ("Enterprise" :> "enterprise")
    @@ ("GovTech" :> "govtech") @@ ("B2B" :> "b2b") @@ ("Series" :> "series")
    @@ ("A" :> "a") @@ ("France" :> "france")

Lower(s) == [i \in DOMAIN s |-> IF s[i] \in DOMAIN LowerWord THEN LowerWord[s[i]] ELSE s[i]]

\* (x or default), x an optional text
OrText(x, default) == IF x = None \/ x[1] = << >> THEN default ELSE x[1]

\* s += pts; reasons.append(tag)
Hit(acc, pts, tag) == [s |-> acc.s + pts, reasons |-> Append(acc.reasons, tag)]

\* Lines 29-30
CountryStep(acc, c) ==
    IF c # << >> /\ Lower(c) \in FOCUS_COUNTRIES THEN Hit(acc, 12, T("focus_country")) ELSE acc

\* Lines 32-35
ModelStep(acc, bm) ==
    IF bm = T("B2B") THEN Hit(acc, 18, T("b2b"))
    ELSE IF bm = T("B2B2C") THEN Hit(acc, 10, T("b2b2c"))
    ELSE acc

\* stage_points.get(st, 0)
StagePoints(st) == IF st \in DOMAIN stage_points THEN stage_points[st] ELSE 0

\* StageStep with the tag appended whatever the points
StageStep_always_tagged(acc, st) == Hit(acc, StagePoints(st), T("stage_") \o st)

\* Lines 50-52
StageStep(acc, st) ==
    IF StagePoints(st) > 0 THEN Hit(acc, StagePoints(st), T("stage_") \o st)
    ELSE [acc EXCEPT !.s = @ + StagePoints(st)]

\* Lines 56-57
SectorStep(acc, sec) ==
    IF sec \in FOCUS_SECTORS THEN Hit(acc, 12, T("focus_sector")) ELSE acc

\* Line 55: {x.strip().lower() for x in (signals or []) if x}
SigSet(signals) == {Lower(Strip(signals[i])) : i \in {j \in DOMAIN signals : signals[j] # << >>}}

\* Lines 59-64
SignalStep(acc, sigset) ==
    LET a == IF T("expansion") \in sigset THEN Hit(acc, 14, T("expansion_signal")) ELSE acc
        b == IF T("enterprise") \in sigset THEN Hit(a, 10, T("enterprise_signal")) ELSE a
    IN  IF T("govtech") \in sigset THEN Hit(b, 8, T("govtech_signal")) ELSE b

\* Line 67: the investors that are non-empty and, stripped, 3 characters or more
Named(investors) ==
    {i \in DOMAIN investors : investors[i] # << >> /\ Len(Strip(investors[i])) >= 3}

\* Lines 68-71
InvestorStep(acc, n) ==
    IF n >= 3 THEN Hit(acc, 6, T("multiple_investors"))
    ELSE IF n = 2 THEN Hit(acc, 3, T("some_investors"))
    ELSE acc

\* Lines 21-72: s and reasons before the clamp
Tally(country, stage, sector, business_model, signals, investors) ==
    LET c   == Lower(Strip(OrText(country, << >>)))
        st  == Strip(OrText(stage, T("Unknown")))
        sec == Lower(Strip(OrText(sector, << >>)))
        bm  == Strip(OrText(business_model, T("Unknown")))
        a1  == CountryStep([s |-> 0, reasons |-> << >>], c)
        a2  == ModelStep(a1, bm)
        a3  == StageStep(a2, st)
        a4  == SectorStep(a3, sec)
        a5  == SignalStep(a4, SigSet(signals))
    IN  InvestorStep(a5, Cardinality(Named(investors)))

\* compute_score without line 74
compute_score_unclamped(country, stage, sector, business_model, signals, investors) ==
    LET a == Tally(country, stage, sector, business_model, signals, investors)
    IN  [score |-> a.s, reasons |-> a.reasons]

compute_score(country, stage, sector, business_model, signals, investors) ==
    LET a  == Tally(country, stage, sector, business_model, signals, investors)
        lo == IF a.s < 100 THEN a.s ELSE 100
    IN  [score |-> IF lo > 0 THEN lo ELSE 0, reasons |-> a.reasons]

-----------------------------------------------------------------------------
(* src/run.py: main *)

DefaultMinYear == 2026

\* credentials: GROQ_API_KEY, TELEGRAM_BOT_TOKEN and TELEGRAM_CHANNEL_ID are all
\* set; sources: the number of sources sources.yaml lists.
Envs ==
    [max_posts : 0..MaxPosts, min_year : {DefaultMinYear}, strict_year : BOOLEAN,
     credentials : BOOLEAN, sources : {0, NumSources}]

\* The environment of the specifications of single functions
ProbeEnv ==
    [max_posts |-> 0, min_year |-> DefaultMinYear, strict_year |-> TRUE,
     credentials |-> TRUE, sources |-> NumSources]

\* A state file left by earlier runs: seen sets one member short of full, none
\* of the members a key of an item of the model.
OldFile ==
    Written([seen_urls |-> [keys |-> {}, pad |-> SeenCap - 1],
             seen_guids |-> [keys |-> {}, pad |-> SeenCap - 1],
             last_run_utc |-> << At(2025, 1) >>])

\* That file cut short by a save that did not end
CorruptFile == Truncated(OldFile.json)

Snapshot == [state |-> state, db |-> db, posted |-> posted, processed_new |-> processed_new]

NoLast ==
    [e |-> 0, u |-> << >>, guid |-> << >>, published_at |-> None, verdict |-> "none",
     calls |-> << >>, reply |-> "none",
     pre |-> [state |-> EmptyState, db |-> << >>, posted |-> 0, processed_new |-> 0]]

\* The state-file accounts of a run that starts on file f
NoIo(f) ==
    [reads |-> 0, writes |-> 0, summaries |-> 0, abort |-> "none", start |-> f,
     loaded |-> None]

\* main before its first run, given the environment and the state file
MainAt(e, f) ==
    /\ env = e
    /\ file = f
    /\ db = << >>
    /\ now = Clock0
    /\ run = 0
    /\ pc = "idle"
    /\ state = EmptyState
    /\ last_run_dt = Epoch2000
    /\ posted = 0
    /\ processed_new = 0
    /\ si = 0
    /\ items = << >>
    /\ ii = 0
    /\ last = NoLast
    /\ failed = [now |-> {}, prev |-> {}]
    /\ io = NoIo(f)

MainInit == \E e \in Envs, f \in {Absent, OldFile, CorruptFile} : MainAt(e, f)

\* A process starts main(): the clock has moved on and the locals are fresh.
Launch ==
    /\ pc \in {"idle", "aborted"}
    /\ run < MaxRuns
    /\ run' = run + 1
    /\ now' = now + 1
    /\ posted' = 0
    /\ processed_new' = 0
    /\ items' = << >>
    /\ ii' = 0
    /\ last' = NoLast
    /\ failed' = [now |-> {}, prev |-> failed.now]
    /\ UNCHANGED << env, db, probe >>

\* Line 156: load_config raises, a credential is missing.
AbortConfig ==
    /\ Launch
    /\ ~env.credentials
    /\ pc' = "aborted"
    /\ io' = [NoIo(file) EXCEPT !.abort = "config"]
    /\ state' = EmptyState
    /\ last_run_dt' = Epoch2000
    /\ si' = 0
    /\ UNCHANGED file

\* Lines 156-159: load_state raises, the state file holds no whole document.
AbortLoad ==
    /\ Launch
    /\ env.credentials
    /\ LoadFails(file)
    /\ pc' = "aborted"
    /\ io' = [NoIo(file) EXCEPT !.abort = "state", !.reads = 1]
    /\ state' = EmptyState
    /\ last_run_dt' = Epoch2000
    /\ si' = 0
    /\ UNCHANGED file

\* AbortSources with the loaded state saved before the raise
AbortSources_saves ==
    /\ Launch
    /\ env.credentials
    /\ ~LoadFails(file)
    /\ env.sources = 0
    /\ pc' = "aborted"
    /\ state' = load_state(file)
    /\ io' = [NoIo(file) EXCEPT !.abort = "sources", !.reads = 1, !.writes = 1,
                                !.loaded = << state' >>]
    /\ last_run_dt' = Epoch2000
    /\ si' = 0
    /\ file' = save_state(state')

\* Lines 156-162: the state is loaded and sources.yaml lists no source.
AbortSources ==
    /\ Launch
    /\ env.credentials
    /\ ~LoadFails(file)
    /\ env.sources = 0
    /\ pc' = "aborted"
    /\ state' = load_state(file)
    /\ io' = [NoIo(file) EXCEPT !.abort = "sources", !.reads = 1, !.loaded = << state' >>]
    /\ last_run_dt' = Epoch2000
    /\ si' = 0
    /\ UNCHANGED file

\* Lines 156-181: the setup of a run that goes on to the sources.
StartRun ==
    /\ Launch
    /\ env.credentials
    /\ ~LoadFails(file)
    /\ env.sources > 0
    /\ state' = load_state(file)
    /\ io' = [NoIo(file) EXCEPT !.reads = 1, !.loaded = << state' >>]
    /\ last_run_dt' = IF parse_iso_dt(state'.last_run_utc) = None THEN Epoch2000
                      ELSE parse_iso_dt(state'.last_run_utc)[1]
    /\ si' = 1
    /\ pc' = "feed"
    /\ UNCHANGED file

\* Where main goes after an item, p being posted then.  leave: the inner loop
\* is left, by the break of line 291 or because the items are exhausted; line
\* 293 then leaves the outer loop or goes to the next source.
LoopOn(p, leave) ==
    IF ~leave
    THEN /\ pc' = "item"
         /\ ii' = ii + 1
         /\ UNCHANGED << si, items >>
    ELSE /\ items' = << >>
         /\ ii' = 0
         /\ IF p >= env.max_posts \/ si = env.sources
            THEN pc' = "save" /\ si' = si
            ELSE pc' = "feed" /\ si' = si + 1

\* continue (lines 194, 200, 205, 229, 249)
Continue == LoopOn(posted, ii = Len(items))

\* Lines 184-187: the next source's feed is fetched and parsed.
FetchFeed ==
    /\ pc = "feed"
    /\ \E es \in Feeds(si) :
        /\ items' = parse_feed(es)
        /\ IF items' # << >>
           THEN pc' = "item" /\ ii' = 1 /\ si' = si
           ELSE /\ ii' = 0
                /\ IF posted >= env.max_posts \/ si = env.sources
                   THEN pc' = "save" /\ si' = si
                   ELSE pc' = "feed" /\ si' = si + 1
    /\ UNCHANGED << env, file, db, now, run, state, last_run_dt, posted, processed_new,
                    last, failed, io, probe >>

\* The verdict of lines 190-205 on item it.
Verdict(it) ==
    LET u     == normalize_url(it.url)
        it_dt == parse_iso_dt(it.published_at)
    IN  IF is_seen(state, u, it.guid) THEN "seen"
        ELSE IF it_dt # None /\ it_dt[1] <= last_run_dt THEN "old"
        ELSE IF env.strict_year /\ ~is_allowed_year(it.published_at, u, env.min_year)
             THEN "year"
        ELSE "new"

\* Lines 189-213: the item is normalized and filtered; one that passes is
\* counted and its text fetched (a failed fetch leaves text = "").  The three
\* skipped_* counters, which are only printed, are last.verdict here.
Examine ==
    /\ pc = "item"
    /\ LET it == items[ii]
           u  == normalize_url(it.url)
           v  == Verdict(it)
       IN  /\ last' = [e |-> it.e, u |-> u, guid |-> it.guid,
                       published_at |-> it.published_at, verdict |-> v,
                       calls |-> IF v = "new" THEN << "fetch_article_text" >> ELSE << >>,
                       reply |-> "none", pre |-> Snapshot]
           /\ IF v = "new"
              THEN /\ processed_new' = processed_new + 1
                   /\ pc' = "groq"
                   /\ UNCHANGED << si, items, ii >>
              ELSE /\ processed_new' = processed_new
                   /\ Continue
    /\ UNCHANGED << env, file, db, now, run, state, last_run_dt, posted, failed, io,
                    probe >>

\* GroqError with the item marked seen before the continue
GroqError_marks_seen ==
    /\ pc = "groq"
    /\ last' = [last EXCEPT !.verdict = "groq_error", !.calls = @ \o << "groq_extract" >>]
    /\ failed' = [failed EXCEPT !.now = @ \cup {last.e}]
    /\ state' \in mark_seen(state, last.u, last.guid, now)
    /\ Continue
    /\ UNCHANGED << env, file, db, now, run, last_run_dt, posted, processed_new, io,
                    probe >>

\* Lines 216-229: groq_extract raises.
GroqError ==
    /\ pc = "groq"
    /\ last' = [last EXCEPT !.verdict = "groq_error", !.calls = @ \o << "groq_extract" >>]
    /\ failed' = [failed EXCEPT !.now = @ \cup {last.e}]
    /\ Continue
    /\ UNCHANGED << env, file, db, now, run, state, last_run_dt, posted, processed_new,
                    io, probe >>

\* Lines 216-241: groq_extract returns a deal, which is scored.
GroqOk ==
    /\ pc = "groq"
    /\ last' = [last EXCEPT !.calls = @ \o << "groq_extract" >>]
    /\ pc' = "send"
    /\ UNCHANGED << env, file, db, now, run, state, last_run_dt, posted, processed_new,
                    si, items, ii, failed, io, probe >>

\* SendError with the item marked seen before the continue
SendError_marks_seen ==
    /\ pc = "send"
    /\ last' = [last EXCEPT !.verdict = "tg_error", !.calls = @ \o << "send_message" >>]
    /\ failed' = [failed EXCEPT !.now = @ \cup {last.e}]
    /\ state' \in mark_seen(state, last.u, last.guid, now)
    /\ Continue
    /\ UNCHANGED << env, file, db, now, run, last_run_dt, posted, processed_new, io,
                    probe >>

\* Lines 244-249: sending the signal message raises.
SendError ==
    /\ pc = "send"
    /\ last' = [last EXCEPT !.verdict = "tg_error", !.calls = @ \o << "send_message" >>]
    /\ failed' = [failed EXCEPT !.now = @ \cup {last.e}]
    /\ Continue
    /\ UNCHANGED << env, file, db, now, run, state, last_run_dt, posted, processed_new,
                    io, probe >>

\* Lines 244-246: the signal message is sent.
SendOk ==
    /\ pc = "send"
    /\ last' = [last EXCEPT !.calls = @ \o << "send_message" >>]
    /\ pc' = "note"
    /\ UNCHANGED << env, file, db, now, run, state, last_run_dt, posted, processed_new,
                    si, items, ii, failed, io, probe >>

\* Lines 252-294: the note is sent as a reply (an error is swallowed), the record
\* is inserted, the item is marked seen and counted, and the cap is checked.
Store ==
    /\ pc = "note"
    /\ \E reply \in {"ok", "error"}, st \in mark_seen(state, last.u, last.guid, now) :
        /\ last' = [last EXCEPT !.verdict = "posted", !.reply = reply,
                                !.calls = @ \o << "send_message", "insert_deal", "mark_seen" >>]
        /\ db' = insert_deal(db, [created_at_utc |-> now, url |-> last.u,
                                   guid |-> last.guid])
        /\ state' = st
    /\ posted' = posted + 1
    /\ failed' = [failed EXCEPT !.now = @ \ {last.e}]
    /\ LoopOn(posted + 1, posted + 1 >= env.max_posts \/ ii = Len(items))
    /\ UNCHANGED << env, file, now, run, last_run_dt, processed_new, io, probe >>

\* Save with the last-run timestamp set to the time of the run before the save
Save_stamps_last_run ==
    /\ pc = "save"
    /\ file' = save_state([state EXCEPT !.last_run_utc = << now >>])
    /\ io' = [io EXCEPT !.writes = @ + 1, !.summaries = @ + 1]
    /\ pc' = "idle"
    /\ UNCHANGED << env, db, now, run, state, last_run_dt, posted, processed_new,
                    si, items, ii, last, failed, probe >>

\* Lines 296-304: the state is saved and the summary printed.
Save ==
    /\ pc = "save"
    /\ file' = save_state(state)
    /\ io' = [io EXCEPT !.writes = @ + 1, !.summaries = @ + 1]
    /\ pc' = "idle"
    /\ UNCHANGED << env, db, now, run, state, last_run_dt, posted, processed_new,
                    si, items, ii, last, failed, probe >>

Init == MainInit /\ probe = << >>

Next ==
    \/ AbortConfig
    \/ AbortLoad
    \/ AbortSources
    \/ StartRun
    \/ FetchFeed
    \/ Examine
    \/ GroqError
    \/ GroqOk
    \/ SendError
    \/ SendOk
    \/ Store
    \/ Save

Spec == Init /\ [][Next]_vars

\* One run of main(): the process is started once.
FirstRun(A) == run = 0 /\ A

RunNext ==
    \/ FirstRun(AbortConfig)
    \/ FirstRun(AbortLoad)
    \/ FirstRun(AbortSources)
    \/ FirstRun(StartRun)
    \/ FetchFeed
    \/ Examine
    \/ GroqError
    \/ GroqOk
    \/ SendError
    \/ SendOk
    \/ Store
    \/ Save

RunSpec == Init /\ [][RunNext]_vars

-----------------------------------------------------------------------------
(* normalize_url on its own: every input of up to MaxUrlLen lexemes is     *)
(* normalized, and the result normalized again.                            *)

Urls == UNION {[1..k -> UrlAlphabet] : k \in 0..MaxUrlLen}

NormInit ==
    /\ MainAt(ProbeEnv, Absent)
    /\ probe \in {[url |-> u, calls |-> 0, out |-> << >>, again |-> << >>] : u \in Urls}

NormCall ==
    /\ probe.calls = 0
    /\ probe' = [probe EXCEPT !.calls = 1, !.out = normalize_url(probe.url)]
    /\ UNCHANGED mainVars

NormAgain ==
    /\ probe.calls = 1
    /\ probe' = [probe EXCEPT !.calls = 2, !.again = normalize_url(probe.out)]
    /\ UNCHANGED mainVars

NormNext == NormCall \/ NormAgain

NormSpec == NormInit /\ [][NormNext]_vars

-----------------------------------------------------------------------------
(* is_seen and mark_seen on their own: up to MaxMarks calls of mark_seen   *)
(* on a loaded state, with calls of is_seen between them.                  *)

SeenPads == {0, SeenCap - 1, SeenCap}

SeenUrlArgs ==
    {<< "a" >>, << "a", "?", "utm_", "s", "=", "x" >>, << "b" >>, << "c", "?", "&" >>}

SeenGuidArgs == {<< >>, << "g1" >>, << "g2" >>}

NoQuery == [asked |-> FALSE, url |-> << >>, guid |-> << >>, result |-> FALSE]

SeenInit ==
    /\ \E n \in SeenPads :
        LET st == [seen_urls |-> [keys |-> {}, pad |-> n],
                   seen_guids |-> [keys |-> {}, pad |-> n],
                   last_run_utc |-> IF n = 0 THEN None ELSE << At(2025, 1) >>]
        IN  MainAt(ProbeEnv, Written(st))
    /\ probe = [marks |-> << >>, loaded |-> FALSE, query |-> NoQuery]

\* state = load_state(path)
SeenLoad ==
    /\ ~probe.loaded
    /\ state' = load_state(file)
    /\ probe' = [probe EXCEPT !.loaded = TRUE]
    /\ UNCHANGED << env, file, db, now, run, pc, last_run_dt, posted, processed_new,
                    si, items, ii, last, failed, io >>

CallMarkSeen ==
    /\ probe.loaded
    /\ Len(probe.marks) < MaxMarks
    /\ \E url \in SeenUrlArgs, guid \in SeenGuidArgs :
        /\ state' \in mark_seen(state, url, guid, now)
        /\ probe' = [probe EXCEPT !.marks = Append(@, [url |-> url, guid |-> guid]),
                                  !.query = NoQuery]
    /\ UNCHANGED << env, file, db, now, run, pc, last_run_dt, posted, processed_new,
                    si, items, ii, last, failed, io >>

CallIsSeen ==
    /\ probe.loaded
    /\ \E url \in SeenUrlArgs, guid \in SeenGuidArgs :
        probe' = [probe EXCEPT !.query = [asked |-> TRUE, url |-> url, guid |-> guid,
                                          result |-> is_seen(state, url, guid)]]
    /\ UNCHANGED mainVars

SeenNext == SeenLoad \/ CallMarkSeen \/ CallIsSeen

SeenSpec == SeenInit /\ [][SeenNext]_vars

-----------------------------------------------------------------------------
(* save_state on its own: a state is loaded, changed by up to MaxMarks calls *)
(* of mark_seen and saved; the process can die while save_state writes.     *)

SaveInit ==
    /\ \E f \in {Absent, OldFile} :
        /\ MainAt(ProbeEnv, f)
        /\ probe = [step |-> "load", before |-> f, marks |-> 0]

\* state = load_state(path)
SaveLoad ==
    /\ probe.step = "load"
    /\ ~LoadFails(file)
    /\ state' = load_state(file)
    /\ probe' = [probe EXCEPT !.step = "run"]
    /\ UNCHANGED << env, file, db, now, run, pc, last_run_dt, posted, processed_new,
                    si, items, ii, last, failed, io >>

\* mark_seen(state, url, guid)
SaveMark ==
    /\ probe.step = "run"
    /\ probe.marks < MaxMarks
    /\ \E url \in SeenUrlArgs, guid \in SeenGuidArgs :
        state' \in mark_seen(state, url, guid, now)
    /\ probe' = [probe EXCEPT !.marks = @ + 1]
    /\ UNCHANGED << env, file, db, now, run, pc, last_run_dt, posted, processed_new,
                    si, items, ii, last, failed, io >>

\* save_state, line 55: open(state_path, "w") empties the file
SaveOpen ==
    /\ probe.step = "run"
    /\ file' = Truncated(state)
    /\ probe' = [probe EXCEPT !.step = "open", !.before = file]
    /\ UNCHANGED << env, db, now, run, pc, state, last_run_dt, posted, processed_new,
                    si, items, ii, last, failed, io >>

\* save_state, line 56 and the end of the with block: the text is written whole
SaveDump ==
    /\ probe.step = "open"
    /\ file' = save_state(state)
    /\ probe' = [probe EXCEPT !.step = "saved"]
    /\ UNCHANGED << env, db, now, run, pc, state, last_run_dt, posted, processed_new,
                    si, items, ii, last, failed, io >>

\* the process dies, or the write fails, before the text is whole
SaveCrash ==
    /\ probe.step = "open"
    /\ probe' = [probe EXCEPT !.step = "crashed"]
    /\ UNCHANGED mainVars

SaveNext == SaveLoad \/ SaveMark \/ SaveOpen \/ SaveDump \/ SaveCrash

SaveSpec == SaveInit /\ [][SaveNext]_vars

-----------------------------------------------------------------------------
(* is_allowed_year on its own: one timestamp and one minimum year, with two  *)
(* URLs.                                                                   *)

YearUrls ==
    {<< "a" >>,
     << "/", "2", "0", "2", "5", "/", "a" >>,
     << "/", "2", "0", "2", "6", "/", "a" >>,
     << "/", "2", "0", "2", "7", "/", "a" >>,
     << "/", "2", "0", "2", "7", "/", "2", "0", "2", "4", "/" >>,
     << "/", "1", "9", "9", "9", "/", "2", "0", "2", "7" >>}

YearStamps ==
    {None} \cup {<< At(y, k) >> : y \in (DefaultMinYear - 2)..(DefaultMinYear + 1),
                                  k \in {0, TicksPerYear - 1}}

MinYears == (DefaultMinYear - 1)..(DefaultMinYear + 1)

YearInit ==
    /\ MainAt(ProbeEnv, Absent)
    /\ probe \in {[published_at |-> p, url |-> u, other |-> w, min_year |-> m,
                    calls |-> 0, r |-> FALSE, r_other |-> FALSE] :
                        p \in YearStamps, u \in YearUrls, w \in YearUrls, m \in MinYears}

\* is_allowed_year(published_at, url, min_year)
YearCall ==
    /\ probe.calls = 0
    /\ probe' = [probe EXCEPT !.calls = 1,
                    !.r = is_allowed_year(probe.published_at, probe.url, probe.min_year)]
    /\ UNCHANGED mainVars

\* is_allowed_year(published_at, other, min_year)
YearCallOther ==
    /\ probe.calls = 1
    /\ probe' = [probe EXCEPT !.calls = 2,
                    !.r_other = is_allowed_year(probe.published_at, probe.other, probe.min_year)]
    /\ UNCHANGED mainVars

YearNext == YearCall \/ YearCallOther

YearSpec == YearInit /\ [][YearNext]_vars

-----------------------------------------------------------------------------
(* compute_score on its own: one call for every combination of the inputs  *)
(* below (null, empty, padded, differently cased and unrecognized values).  *)

Abc == << "a", "b", "c" >>
Ab == << "a", "b" >>

ScoreCountries ==
    {None, << << >> >>, << T("Brazil") >>, << << " ", "BRAZIL", " " >> >>, << T("France") >>}

ScoreStages ==
    {None, << T("Unknown") >>, << SeriesA >>, << << " ", "Series", " ", "A", " " >> >>,
     << T("Pre-Seed") >>, << << "series", " ", "a" >> >>, << T("IPO") >>}

ScoreSectors == {None, << T("fintech") >>, << << "Fintech", " " >> >>, << T("gaming") >>}

ScoreModels ==
    {None, << T("B2B") >>, << T("B2B2C") >>, << T("B2C") >>, << T("Unknown") >>, << T("b2b") >>}

ScoreSignals ==
    {<< >>,
     << T("expansion") >>,
     << << " ", "Expansion" >>, T("enterprise"), T("govtech") >>,
     << T("govtech"), T("expansion"), T("expansion") >>,
     << << >>, T("other") >>,
     << T("Enterprise") >>}

ScoreInvestors ==
    {<< >>,
     << Abc >>,
     << Abc, Abc \o Ab >>,
     << Abc, Ab, Ab \o Abc >>,
     << Abc, Ab \o Ab, Ab \o Abc >>,
     << Abc, Abc, Abc, << " ", "a", "b", " " >> >>,
     << << >>, Ab >>}

ScoreInit ==
    /\ MainAt(ProbeEnv, Absent)
    /\ probe \in {[country |-> c, stage |-> st, sector |-> sec, business_model |-> bm,
                    signals |-> sg, investors |-> inv, calls |-> 0,
                    out |-> [score |-> 0, reasons |-> << >>]] :
                        c \in ScoreCountries, st \in ScoreStages, sec \in ScoreSectors,
                        bm \in ScoreModels, sg \in ScoreSignals, inv \in ScoreInvestors}

\* sr = compute_score(...)
ScoreCall ==
    /\ probe.calls = 0
    /\ probe' = [probe EXCEPT !.calls = 1,
                    !.out = compute_score(probe.country, probe.stage, probe.sector,
                                          probe.business_model, probe.signals,
                                          probe.investors)]
    /\ UNCHANGED mainVars

ScoreNext == ScoreCall

ScoreSpec == ScoreInit /\ [][ScoreNext]_vars

-----------------------------------------------------------------------------
(* The deal of one item, from the JSON object the model returned to the row  *)
(* of the deals table: DealExtract.model_validate, model_dump,             *)
(* compute_score, the record and insert_deal.  stage and business_model    *)
(* are drawn from the values the schema admits, null or a string.          *)

\* groq_ai.py, SYSTEM: "stage must be one of"
StageNames ==
    {T("Pre-Seed"), T("Seed"), SeriesA, << "Series", " ", "B" >>, << "Series", " ", "C" >>,
     T("Growth"), T("Debt"), T("Grant"), T("M&A"), T("IPO"), T("Unknown")}

\* groq_ai.py, SYSTEM: "business_model must be one of"
ModelNames == {T("B2B"), T("B2C"), T("B2B2C"), T("Unknown")}

ReturnedStages ==
    {None, << << >> >>, << << "Series", " ", "D" >> >>, << T("seed") >>,
     << << " ", "Seed" >> >>} \cup {<< n >> : n \in StageNames}

ReturnedModels ==
    {None, << << >> >>, << T("b2b") >>, << T("SaaS") >>} \cup {<< n >> : n \in ModelNames}

NoDeal == [stage |-> None, business_model |-> None]

DealInit ==
    /\ MainAt(ProbeEnv, Absent)
    /\ probe \in {[obj |-> [stage |-> st, business_model |-> bm], step |-> "returned",
                    deal |-> NoDeal, score |-> 0] :
                        st \in ReturnedStages, bm \in ReturnedModels}

\* DealExtract.model_validate(obj): stage and business_model are Optional[str]
\* fields with no validator, so null and every string are kept as they are.
model_validate(obj) == [stage |-> obj.stage, business_model |-> obj.business_model]

\* groq_ai.py line 118 and run.py line 231: deal = deal_obj.model_dump()
DealDump ==
    /\ probe.step = "returned"
    /\ probe' = [probe EXCEPT !.step = "deal", !.deal = model_validate(probe.obj)]
    /\ UNCHANGED mainVars

\* run.py lines 234-241: sr = compute_score(...)
DealScore ==
    /\ probe.step = "deal"
    /\ probe' = [probe EXCEPT !.step = "scored",
                    !.score = compute_score(None, probe.deal.stage, None,
                                            probe.deal.business_model, << >>, << >>).score]
    /\ UNCHANGED mainVars

\* run.py lines 264-284: the record is built from the deal and inserted
DealInsert ==
    /\ probe.step = "scored"
    /\ db' = insert_deal(db, [created_at_utc |-> now, url |-> T("a"), guid |-> T("g1"),
                              stage |-> probe.deal.stage,
                              business_model |-> probe.deal.business_model,
                              deal_score |-> probe.score])
    /\ probe' = [probe EXCEPT !.step = "stored"]
    /\ UNCHANGED << env, file, now, run, pc, state, last_run_dt, posted, processed_new,
                    si, items, ii, last, failed, io >>

DealNext == DealDump \/ DealScore \/ DealInsert

DealSpec == DealInit /\ [][DealNext]_vars

-----------------------------------------------------------------------------
(* Claims about main (specification Spec) *)

Accepted == {"new", "groq_error", "tg_error", "posted"}

\* C1: when groq_extract raises for an item that passed the filters, the run
\* state (both seen sets) and the deals table are as they were before the item,
\* posted is unchanged, processed_new is one more than before the item, and main
\* is back in its loops (at the next item, the next source or the save), not in
\* the handling of the item.
C1_EnrichmentFailureSkipsItem ==
    last.verdict = "groq_error" =>
        /\ state = last.pre.state
        /\ db = last.pre.db
        /\ posted = last.pre.posted
        /\ processed_new = last.pre.processed_new + 1
        /\ pc \in {"item", "feed", "save", "idle"}

\* groq_extract raised for an item and main is at the next item of the feed
C1_Witness ==
    /\ last.verdict = "groq_error"
    /\ pc = "item"
    /\ ii > 1
    /\ items[ii - 1].e = last.e

\* C2: an item whose enrichment or publication failed in the run before (and
\* that was not published in that run) is rejected by no filter when the feed
\* returns it again: it reaches the enrichment call.
C2_FailedItemRetried ==
    (last.verdict # "none" /\ last.e \in failed.prev) => last.verdict \in Accepted

\* C3: an item whose canonical URL is in the seen-URL set, or whose non-empty
\* guid is in the seen-guid set, when it is examined, is skipped with no call
\* made for it, the run state unchanged and neither counter incremented.
C3_SeenItemSkipped ==
    (/\ last.verdict # "none"
     /\ \/ last.u \in last.pre.state.seen_urls.keys
        \/ last.guid # << >> /\ last.guid \in last.pre.state.seen_guids.keys)
    => /\ last.verdict = "seen"
       /\ last.calls = << >>
       /\ state = last.pre.state
       /\ posted = last.pre.posted
       /\ processed_new = last.pre.processed_new

\* C4: posted never exceeds MAX_POSTS_PER_RUN, for every maximum >= 0, and once
\* posted has reached the maximum no item is passed on to the enrichment or
\* the publication.
C4_PostedWithinCap ==
    /\ posted <= env.max_posts
    /\ posted >= env.max_posts => pc \notin {"groq", "send", "note"}

\* The decision the year filter is to take
YearDecision(published_at, url, min_year, strict) ==
    LET dt == parse_iso_dt(published_at)
        y  == extract_year_from_url(url)
    IN  IF dt # None THEN Year(dt[1]) >= min_year
        ELSE IF y # None THEN y[1] >= min_year
        ELSE ~strict

\* C10: an item that reaches the year filter is accepted iff (a) its timestamp
\* parses and its year is >= the minimum year, or (b) it does not parse, the URL
\* holds a year and that year is >= the minimum year, or (c) neither gives a year
\* and the filter is not strict; for both values of the strictness flag.
C10_YearFilterDecision ==
    last.verdict \in Accepted \cup {"year"} =>
        (last.verdict \in Accepted
            <=> YearDecision(last.published_at, last.u, env.min_year, env.strict_year))

\* C15: a run that finds no state file loads the empty state (no seen URL, no
\* seen guid, no last-run timestamp) and goes on; a run that finds a state file
\* that is no whole document aborts on the load error before it handles any
\* item, and leaves the file as it found it.
C15_LoadAbsentOrCorrupt ==
    (run > 0 /\ env.credentials) =>
        /\ ~io.start.exists =>
                /\ io.loaded = << EmptyState >>
                /\ io.abort # "state"
                /\ env.sources > 0 => pc # "aborted"
        /\ (io.start.exists /\ ~io.start.whole) =>
                /\ pc = "aborted"
                /\ io.abort = "state"
                /\ io.loaded = None
                /\ file = io.start
                /\ io.writes = 0
                /\ processed_new = 0
                /\ posted = 0
                /\ last = NoLast

\* a run has aborted on a state file cut short
C15_Witness ==
    /\ run > 0
    /\ pc = "aborted"
    /\ io.abort = "state"
    /\ file = CorruptFile

\* C16: when sending the signal message raises, the run state (both seen
\* sets), the deals table and posted are as they were before the item, no
\* second message is sent for it, and main is back in its loops.
C16_PublicationFailureSkipsItem ==
    last.verdict = "tg_error" =>
        /\ state = last.pre.state
        /\ db = last.pre.db
        /\ posted = last.pre.posted
        /\ last.calls = << "fetch_article_text", "groq_extract", "send_message" >>
        /\ pc \in {"item", "feed", "save", "idle"}

\* the signal message failed for an item and main is at the next item
C16_Witness ==
    /\ last.verdict = "tg_error"
    /\ pc = "item"
    /\ ii > 1
    /\ items[ii - 1].e = last.e

\* C17: after the signal message of an item is sent, and whether the reply
\* succeeds or not, main inserts the record, then marks the item seen, then
\* adds one to posted; the insert adds one row when the URL is not stored and
\* leaves the table as it is when it is, so no two rows hold the same URL.
C17_StoredMarkedCounted ==
    /\ \A i, j \in DOMAIN db : i # j => db[i].url # db[j].url
    /\ pc = "note" => last.verdict = "new"
    /\ last.verdict = "posted" =>
        /\ last.calls = << "fetch_article_text", "groq_extract", "send_message",
                           "send_message", "insert_deal", "mark_seen" >>
        /\ posted = last.pre.posted + 1
        /\ state \in mark_seen(last.pre.state, last.u, last.guid, now)
        /\ IF last.u \in StoredUrls(last.pre.db)
           THEN db = last.pre.db
           ELSE /\ Len(db) = Len(last.pre.db) + 1
                /\ SubSeq(db, 1, Len(last.pre.db)) = last.pre.db
                /\ db[Len(db)].url = last.u

\* an item is published whose URL a row of an earlier run holds, and the reply
\* fails: the table is unchanged, the item marked and counted
C17_Witness ==
    /\ last.verdict = "posted"
    /\ last.reply = "error"
    /\ last.u \in StoredUrls(last.pre.db)
    /\ db = last.pre.db
    /\ posted = last.pre.posted + 1

\* C18: an item whose canonical URL is empty is not counted as processed, not
\* enriched and not published, and the empty URL is in no seen-URL set and in
\* no row.
C18_EmptyUrlRejected ==
    /\ (last.verdict # "none" /\ last.u = << >>) =>
            /\ last.verdict \notin Accepted
            /\ last.calls = << >>
            /\ processed_new = last.pre.processed_new
    /\ << >> \notin state.seen_urls.keys
    /\ << >> \notin StoredUrls(db)

\* C19: the dedup check comes before the year filter, and an examined item
\* with a non-empty canonical URL that is not seen and that the year filter
\* accepts is counted as processed and reaches the enrichment call.
C19_OnlyThreeChecks ==
    last.verdict # "none" =>
        LET seen == is_seen(last.pre.state, last.u, last.guid)
            year == YearDecision(last.published_at, last.u, env.min_year, env.strict_year)
        IN  /\ seen => last.verdict = "seen"
            /\ (last.u # << >> /\ ~seen /\ year) =>
                    /\ last.verdict \in Accepted
                    /\ processed_new = last.pre.processed_new + 1

\* C20: a run reads the state file once; a run that passes the setup writes it
\* once, after its last item, and then prints the summary, also when the cap
\* ended it or nothing was published; a run aborted in the setup (credentials
\* missing, no source, state file cut short) does not write it.
C20_ReadOnceWrittenOnce ==
    /\ io.reads <= 1
    /\ io.writes <= 1
    /\ pc \in {"feed", "item", "groq", "send", "note", "save"} =>
            io.reads = 1 /\ io.writes = 0 /\ io.summaries = 0 /\ file = io.start
    /\ (pc = "idle" /\ run > 0) =>
            io.reads = 1 /\ io.writes = 1 /\ io.summaries = 1 /\ file = Written(state)
    /\ pc = "aborted" =>
            io.writes = 0 /\ io.summaries = 0 /\ file = io.start /\ io.abort # "none"

\* a run the cap ended before its last source has saved, with something
\* published
C20_Witness ==
    /\ pc = "idle"
    /\ run > 0
    /\ io.writes = 1
    /\ posted > 0
    /\ posted >= env.max_posts
    /\ si < env.sources

\* C22: the signal message is sent at most once for a canonical URL: not twice
\* in one run, and not again in a later run once a run that published it has
\* saved its state (fewer than SeenCap keys are ever marked in a behaviour of
\* the model).  The rows of the deals table hold every URL published so far.
C22_NoUrlPublishedTwice ==
    (pc = "note" \/ last.verdict = "posted") => last.u \notin StoredUrls(last.pre.db)

\* C23: the run state changes only when a published item is marked seen: an
\* item that is not published leaves it as it was, a run that has published
\* nothing holds, and saves, the seen sets and the last-run timestamp it
\* loaded, and the last-run timestamp differs from the loaded one only in a
\* run that has published an item.
C23_StateChangesOnlyByMarkSeen ==
    /\ last.verdict \notin {"none", "posted"} => state = last.pre.state
    /\ (run > 0 /\ io.loaded # None) =>
            /\ posted = 0 => state = io.loaded[1]
            /\ (posted = 0 /\ pc = "idle") => file = Written(io.loaded[1])
            /\ state.last_run_utc # io.loaded[1].last_run_utc => posted >= 1

\* a run that handled items and published none has saved the state it loaded
\* from the file of earlier runs
C23_Witness ==
    /\ run > 0
    /\ pc = "idle"
    /\ posted = 0
    /\ processed_new > 0
    /\ io.start = OldFile
    /\ file = OldFile

-----------------------------------------------------------------------------
(* Claims about the run state: is_seen and mark_seen (specification        *)
(* SeenSpec), save_state (specification SaveSpec)                          *)

Marked == {probe.marks[i] : i \in DOMAIN probe.marks}

\* C5: after mark_seen(state, url, guid) every later is_seen with the same URL is
\* true, and so is every later is_seen with the same non-empty guid, whatever
\* was marked in between; is_seen of a URL and a guid never marked is false.
C5_DedupSound ==
    probe.query.asked =>
        LET q == probe.query
        IN  /\ (\E m \in Marked : m.url = q.url) => q.result
            /\ (\E m \in Marked : m.guid # << >> /\ m.guid = q.guid) => q.result
            /\ (\A m \in Marked :
                    /\ normalize_url(m.url) # normalize_url(q.url)
                    /\ (q.guid = << >> \/ m.guid # q.guid)) => ~q.result

\* C6: is_seen(state, url, guid) is true iff normalize_url(url) is in the seen-URL
\* set or guid is non-empty and in the seen-guid set; an empty guid never
\* matches, and either match alone is enough.
C6_IsSeenIff ==
    probe.query.asked =>
        LET q      == probe.query
            byUrl  == normalize_url(q.url) \in state.seen_urls.keys
            byGuid == q.guid \in state.seen_guids.keys
        IN  /\ q.result <=> (byUrl \/ (q.guid # << >> /\ byGuid))
            /\ (q.guid = << >> /\ ~byUrl) => ~q.result
            /\ byUrl => q.result
            /\ (q.guid # << >> /\ byGuid) => q.result

\* is_seen is true by the guid alone: the URL is not in the seen-URL set
C6_Witness ==
    /\ probe.query.asked
    /\ probe.query.result
    /\ normalize_url(probe.query.url) \notin state.seen_urls.keys
    /\ probe.marks # << >>

\* C7: after any sequence of mark_seen calls each seen set has at most SeenCap
\* members and holds the most recently inserted keys: every key marked by one of
\* the (fewer than SeenCap) calls made, the latest call's first of all.
C7_RecentKeysKept ==
    /\ Size(state.seen_urls) <= SeenCap
    /\ Size(state.seen_guids) <= SeenCap
    /\ \A m \in Marked :
        /\ normalize_url(m.url) \in state.seen_urls.keys
        /\ m.guid # << >> => m.guid \in state.seen_guids.keys

\* C14: at every point of save_state, a crash part-way included, the state
\* file holds the whole text of the state it held before the save or the
\* whole text of the state being saved, never a text cut short.
C14_SaveAllOrNothing ==
    probe.step \in {"open", "saved", "crashed"} =>
        /\ file.exists => file.whole
        /\ file = probe.before \/ file = Written(state)

-----------------------------------------------------------------------------
(* Claims about normalize_url (specification NormSpec) *)

\* The query parameters of a URL: the text after the first "?", split at "&".
RECURSIVE SplitAmp(_)
SplitAmp(q) ==
    IF q = << >> THEN {}
    ELSE LET e == RunEnd(q, 1, "&")
         IN  (IF e >= 1 THEN {SubSeq(q, 1, e)} ELSE {})
             \cup SplitAmp(SubSeq(q, e + 2, Len(q)))

Params(u) ==
    LET q == RunEnd(u, 1, "?") + 1
    IN  IF q > Len(u) THEN {} ELSE SplitAmp(SubSeq(u, q + 1, Len(u)))

Key(p) == SubSeq(p, 1, RunEnd(p, 1, "="))

IsTracking(p) == p[1] = "utm_" \/ Key(p) \in {<< "fbclid" >>, << "gclid" >>}

\* C8: normalize_url(normalize_url(u)) = normalize_url(u) for every u
C8_Idempotent == probe.calls = 2 => probe.again = probe.out

\* C9: the output of normalize_url holds no query parameter whose key starts
\* with utm_ and no fbclid or gclid parameter, does not end with "?" or "&", and
\* holds every other query parameter of the input.
C9_TrackingRemoved ==
    probe.calls >= 1 =>
        /\ \A p \in Params(probe.out) : ~IsTracking(p)
        /\ probe.out = << >> \/ ~IsSep(probe.out[Len(probe.out)])
        /\ \A p \in Params(Strip(probe.url)) : ~IsTracking(p) => p \in Params(probe.out)

-----------------------------------------------------------------------------
(* Claims about is_allowed_year (specification YearSpec) *)

\* C11: when the publication timestamp parses, the decision of the year filter
\* is (year of the timestamp >= minimum year) and so is the same for any two
\* URLs, whatever year they embed or none.
C11_TimestampPrecedence ==
    (probe.calls = 2 /\ parse_iso_dt(probe.published_at) # None) =>
        /\ probe.r = (Year(parse_iso_dt(probe.published_at)[1]) >= probe.min_year)
        /\ probe.r_other = probe.r

\* a timestamp of the year before the minimum year, one URL embedding a later
\* year and one embedding none: both rejected
C11_Witness ==
    /\ probe.calls = 2
    /\ probe.published_at # None
    /\ Year(probe.published_at[1]) = probe.min_year - 1
    /\ extract_year_from_url(probe.url) = << probe.min_year + 1 >>
    /\ extract_year_from_url(probe.other) = None
    /\ ~probe.r
    /\ ~probe.r_other

-----------------------------------------------------------------------------
(* Claims about the deal of an item (specification DealSpec) *)

\* C21: every row of the deals table has a stage in the closed set of stage
\* names and a business model in the closed set of business models: a value
\* the model returned outside these sets, or null, is Unknown in the deal that
\* is scored and in the row, and the item is stored all the same.
C21_EnumsCoerced ==
    /\ \A i \in DOMAIN db :
            /\ db[i].stage # None /\ db[i].stage[1] \in StageNames
            /\ db[i].business_model # None /\ db[i].business_model[1] \in ModelNames
    /\ probe.step \in {"deal", "scored", "stored"} =>
            /\ probe.deal.stage # None /\ probe.deal.stage[1] \in StageNames
            /\ probe.deal.business_model # None
            /\ probe.deal.business_model[1] \in ModelNames
    /\ probe.step = "stored" => Len(db) = 1

-----------------------------------------------------------------------------
(* Claims about compute_score (specification ScoreSpec) *)

\* C12: for every combination of country, stage, sector, business model,
\* signals and investors, null, empty and unrecognized values included,
\* 0 <= score <= 100.
C12_ScoreBounded ==
    probe.calls = 1 => (0 <= probe.out.score /\ probe.out.score <= 100)

\* every condition of the table is triggered: the points add up to more than
\* 100 and the score is 100
C12_Witness ==
    /\ probe.calls = 1
    /\ probe.out.score = 100
    /\ Len(probe.out.reasons) = 8

\* The contribution table, read on the texts without their surrounding blanks
\* (a null text as the empty one): the rows triggered, as IF-THEN pairs.
Trimmed(x) == IF x = None THEN << >> ELSE Strip(x[1])

TableRows ==
    LET country == Lower(Trimmed(probe.country))
        stage   == Trimmed(probe.stage)
        sector  == Lower(Trimmed(probe.sector))
        model   == Trimmed(probe.business_model)
        has(w)  == \E i \in DOMAIN probe.signals : Lower(Strip(probe.signals[i])) = T(w)
        names   == Cardinality({i \in DOMAIN probe.investors :
                                    Len(Strip(probe.investors[i])) >= 3})
    IN  << [on |-> country \in FOCUS_COUNTRIES, points |-> 12, tag |-> T("focus_country")],
           [on |-> model = T("B2B"), points |-> 18, tag |-> T("b2b")],
           [on |-> model = T("B2B2C"), points |-> 10, tag |-> T("b2b2c")],
           [on |-> stage \in DOMAIN stage_points /\ stage # T("Unknown"),
            points |-> StagePoints(stage), tag |-> T("stage_") \o stage],
           [on |-> sector \in FOCUS_SECTORS, points |-> 12, tag |-> T("focus_sector")],
           [on |-> has("expansion"), points |-> 14, tag |-> T("expansion_signal")],
           [on |-> has("enterprise"), points |-> 10, tag |-> T("enterprise_signal")],
           [on |-> has("govtech"), points |-> 8, tag |-> T("govtech_signal")],
           [on |-> names >= 3, points |-> 6, tag |-> T("multiple_investors")],
           [on |-> names = 2, points |-> 3, tag |-> T("some_investors")] >>

RECURSIVE TableTags(_, _)
TableTags(rows, i) ==
    IF i > Len(rows) THEN << >>
    ELSE (IF rows[i].on THEN << rows[i].tag >> ELSE << >>) \o TableTags(rows, i + 1)

RECURSIVE TableSum(_, _)
TableSum(rows, i) ==
    IF i > Len(rows) THEN 0
    ELSE (IF rows[i].on THEN rows[i].points ELSE 0) + TableSum(rows, i + 1)

ScenarioA ==
    /\ probe.country = << T("Brazil") >>
    /\ probe.stage = << SeriesA >>
    /\ probe.sector = << T("fintech") >>
    /\ probe.business_model = << T("B2B") >>
    /\ probe.signals = << T("expansion") >>
    /\ probe.investors = << Abc, Ab \o Ab, Ab \o Abc >>

ScenarioB ==
    /\ probe.country \in {None, << << >> >>}
    /\ probe.stage \in {None, << T("Unknown") >>}
    /\ probe.sector = None
    /\ probe.business_model \in {None, << T("Unknown") >>}
    /\ probe.signals = << >>
    /\ probe.investors = << >>

\* C13: the reasons compute_score returns are the tags of the triggered rows of
\* the contribution table, once each, in the order of the table, and the score
\* is the sum of their points clamped to [0,100]; scenario A gives 84 with
\* [focus_country, b2b, stage_Series A, focus_sector, expansion_signal,
\* multiple_investors], scenario B gives 0 with no reasons.
C13_ScoreAgreesWithTable ==
    probe.calls = 1 =>
        LET sum == TableSum(TableRows, 1)
        IN  /\ probe.out.reasons = TableTags(TableRows, 1)
            /\ probe.out.score = IF sum > 100 THEN 100 ELSE sum
            /\ \A i, j \in DOMAIN probe.out.reasons :
                    i # j => probe.out.reasons[i] # probe.out.reasons[j]
            /\ ScenarioA =>
                    /\ probe.out.score = 84
                    /\ probe.out.reasons =
                            << T("focus_country"), T("b2b"), T("stage_") \o SeriesA,
                               T("focus_sector"), T("expansion_signal"),
                               T("multiple_investors") >>
            /\ ScenarioB => probe.out = [score |-> 0, reasons |-> << >>]

\* scenario A has been scored
C13_Witness == probe.calls = 1 /\ ScenarioA /\ probe.out.score = 84

=============================================================================
